---- MODULE Spec2Model ----
(***************************************************************************)
(* Model of the Solodit MCP server (src/src/index.ts): the two tools       *)
(* search_findings and get_finding_by_id, the shared remote query          *)
(* searchSoloditFindings, and the two text renderings.                     *)
(*                                                                         *)
(* JavaScript values whose type the code tests (optional arguments,        *)
(* nullable fields of a finding) are tagged records [t |-> type, v |-> x]; *)
(* values the code only interpolates are plain strings and integers.       *)
(* Texts are TLA+ strings, built with \o exactly as the template literals  *)
(* of the source build them.                                               *)
(***************************************************************************)
EXTENDS Integers, Sequences, FiniteSets, TLC

VARIABLES env, SOLODIT_API_KEY, pc, tool, args, sent, outcome, result

vars == <<env, SOLODIT_API_KEY, pc, tool, args, sent, outcome, result>>

(***************************************************************************)
(* Bounds of the model.                                                    *)
(***************************************************************************)
\* at most this many findings in one remote response
MaxFindings == 2

(***************************************************************************)
(* Program constants.                                                      *)
(***************************************************************************)
TruncateAt == 500
DefaultPage == 1
DefaultPageSize == 20

(***************************************************************************)
(* JavaScript values.                                                      *)
(***************************************************************************)
Undefined == [t |-> "undefined"]
Null == [t |-> "null"]
Str(s) == [t |-> "string", v |-> s]
Num(n) == [t |-> "number", v |-> n]
Arr(a) == [t |-> "array", v |-> a]
Obj(o) == [t |-> "object", v |-> o]

\* ToBoolean: the test of `if (x)`, `!x` and `x || y`
Truthy(x) ==
  CASE x.t \in {"undefined", "null"} -> FALSE
    [] x.t = "string" -> x.v # ""
    [] x.t = "number" -> x.v # 0
    [] OTHER -> TRUE

\* x || y
Or(x, y) == IF Truthy(x) THEN x ELSE y

Min(a, b) == IF a < b THEN a ELSE b

\* String.prototype.substring(0, n)
Substring0(s, n) == SubSeq(s, 1, Min(n, Len(s)))

IsWhitespace(c) == c \in {" ", "\n", "\t", "\r"}

RECURSIVE TrimEnd(_)
TrimEnd(s) ==
  IF Len(s) = 0 THEN ""
  ELSE IF IsWhitespace(SubSeq(s, Len(s), Len(s)))
       THEN TrimEnd(SubSeq(s, 1, Len(s) - 1))
       ELSE s

RECURSIVE TrimStart(_)
TrimStart(s) ==
  IF Len(s) = 0 THEN ""
  ELSE IF IsWhitespace(SubSeq(s, 1, 1))
       THEN TrimStart(SubSeq(s, 2, Len(s)))
       ELSE s

\* String.prototype.trim()
Trim(s) == TrimStart(TrimEnd(s))

\* Array.prototype.join(sep) on an array of strings
RECURSIVE Join(_, _)
Join(a, sep) ==
  IF Len(a) = 0 THEN ""
  ELSE IF Len(a) = 1 THEN a[1]
  ELSE a[1] \o sep \o Join(Tail(a), sep)

\* `${n}` for an integer n
NumText(n) == ToString(n)

\* Number.prototype.toFixed(3), the number given in milliseconds
Pad3(n) == IF n < 10 THEN "00" \o ToString(n)
           ELSE IF n < 100 THEN "0" \o ToString(n) ELSE ToString(n)
ToFixed3(ms) == ToString(ms \div 1000) \o "." \o Pad3(ms % 1000)

(***************************************************************************)
(* The input schema of search_findings: the parameter names and, for each, *)
(* a few of the values the schema admits.  An argument that is not         *)
(* supplied reads as undefined.                                            *)
(***************************************************************************)
StringParams == {"keywords", "protocol", "user", "minFinders", "maxFinders"}
WrappedListParams == {"firms", "tags", "protocolCategory", "languages"}
ListParams == WrappedListParams \cup {"impact"}
EnumParams == {"reportedDays", "sortField", "sortDirection"}
NumberParams == {"qualityScore", "rarityScore"}
FilterParams == StringParams \cup ListParams \cup EnumParams \cup NumberParams
PageParams == {"page", "pageSize"}
SearchParams == FilterParams \cup PageParams

Admitted(p) ==
  CASE p = "keywords" -> {Str(""), Str("reentrancy")}
    [] p = "protocol" -> {Str(""), Str("Uniswap")}
    [] p = "user" -> {Str(""), Str("alice")}
    [] p \in {"minFinders", "maxFinders"} -> {Str(""), Str("0"), Str("3")}
    [] p = "impact" -> {Arr(<<>>), Arr(<<"HIGH", "GAS">>)}
    [] p = "firms" -> {Arr(<<>>), Arr(<<"Cyfrin", "Sherlock">>)}
    [] p = "tags" -> {Arr(<<>>), Arr(<<"Oracle">>)}
    [] p = "protocolCategory" -> {Arr(<<>>), Arr(<<"DeFi">>)}
    [] p = "languages" -> {Arr(<<>>), Arr(<<"Solidity">>)}
    [] p = "reportedDays" -> {Str("30"), Str("60"), Str("90"), Str("alltime")}
    [] p \in NumberParams -> {Num(0), Num(5)}
    [] p = "sortField" -> {Str("Recency"), Str("Quality"), Str("Rarity")}
    [] p = "sortDirection" -> {Str("Desc"), Str("Asc")}
    [] p = "page" -> {Num(2)}
    [] p = "pageSize" -> {Num(5)}

\* every way of giving the parameters of S an admitted value
RECURSIVE Assignments(_)
Assignments(S) ==
  IF S = {} THEN {[k \in {} |-> Undefined]}
  ELSE LET p == CHOOSE q \in S : TRUE
       IN {(p :> v) @@ f : v \in Admitted(p), f \in Assignments(S \ {p})}

\* the parsed argument object: a supplied parameter has its value, any other
\* reads as undefined
ArgsObject(f) == [p \in SearchParams |-> IF p \in DOMAIN f THEN f[p] ELSE Undefined]

Supplied(a) == {p \in DOMAIN a : a[p] # Undefined}

\* every filter parameter supplied at once: each with its falsy-most admitted
\* value, and each with an ordinary one
AllFalsy ==
  [p \in FilterParams |->
     CASE p \in StringParams -> Str("")
       [] p \in ListParams -> Arr(<<>>)
       [] p \in NumberParams -> Num(0)
       [] p = "reportedDays" -> Str("30")
       [] p = "sortField" -> Str("Recency")
       [] p = "sortDirection" -> Str("Desc")]
AllOrdinary ==
  [p \in FilterParams |-> CHOOSE v \in Admitted(p) : v \notin {AllFalsy[p], Str("0")}]

\* the calls of search_findings the model makes: no filter parameter, each
\* single filter parameter with each of its values, or all of them; with and
\* without page and pageSize
SearchArgs ==
  {ArgsObject(f @@ g) :
     f \in UNION {Assignments(P) : P \in SUBSET PageParams},
     g \in UNION {Assignments(F) :
                    F \in {G \in SUBSET FilterParams : Cardinality(G) <= 1}}
           \cup {AllFalsy, AllOrdinary}}

GetArgs == {[keywords |-> Str(k)] : k \in {"", "nonexistent-slug", "41234"}}

(***************************************************************************)
(* search_findings: the filters object and the request.                    *)
(***************************************************************************)
\* the key of SoloditFilters a parameter is assigned to
FilterKey(p) == IF p = "reportedDays" THEN "reported" ELSE p

\* every assignment guarded by truthiness, the score thresholds too
IsAssigned_Truthy(a, p) == Truthy(a[p])

\* the guard of the assignment of parameter p
IsAssigned(a, p) ==
  IF p \in NumberParams THEN a[p] # Undefined ELSE Truthy(a[p])

\* list.map((x) => ({ value: x }))
WrapValues(list) == [i \in DOMAIN list |-> [value |-> list[i]]]

\* the value assigned for parameter p
FilterValue(a, p) ==
  CASE p \in WrappedListParams -> Arr(WrapValues(a[p].v))
    [] p = "reportedDays" -> Obj([value |-> a[p].v])
    [] OTHER -> a[p]

BuildFilters(a) ==
  LET assigned == {p \in FilterParams : IsAssigned(a, p)}
  IN [k \in {FilterKey(p) : p \in assigned} |->
        FilterValue(a, CHOOSE p \in assigned : FilterKey(p) = k)]

\* a request that always carries the filters object
HasKeys_Always(filters) == TRUE

\* Object.keys(filters).length > 0
HasKeys(filters) == Cardinality(DOMAIN filters) > 0

SearchRequest(a) ==
  LET filters == BuildFilters(a)
      base == [page |-> Or(a["page"], Num(DefaultPage)).v,
               pageSize |-> Or(a["pageSize"], Num(DefaultPageSize)).v]
  IN IF HasKeys(filters) THEN ("filters" :> filters) @@ base ELSE base

(***************************************************************************)
(* get_finding_by_id: the request.                                         *)
(***************************************************************************)
GetRequest(a) ==
  [page |-> 1, pageSize |-> 1, filters |-> [keywords |-> a.keywords]]

(***************************************************************************)
(* Findings and remote responses.                                          *)
(***************************************************************************)
RECURSIVE Repeat(_, _)
Repeat(s, n) ==
  IF n = 0 THEN ""
  ELSE IF n % 2 = 0 THEN LET h == Repeat(s, n \div 2) IN h \o h
  ELSE s \o Repeat(s, n - 1)

\* a content body of n >= 2 characters with a recognisable first and last one
Content(n) == "H" \o Repeat("x", n - 2) \o "T"

Finders(handles) ==
  Arr([i \in DOMAIN handles |-> [wardens_warden |-> [handle |-> handles[i]]]])
Tags(titles) ==
  Arr([i \in DOMAIN titles |-> [tags_tag |-> [title |-> titles[i]]]])

\* every optional field present, a summary, a body longer than the excerpt
FindingFull ==
  [id |-> "101", slug |-> "vault-reentrancy", title |-> "Reentrancy in Vault",
   content |-> Content(TruncateAt + 1), summary |-> Str("Vault can be drained."),
   impact |-> "HIGH", quality_score |-> 4, general_score |-> 3,
   report_date |-> Str("2024-01-15"), firm_name |-> Str("Cyfrin"),
   protocol_name |-> Str("Vault"), finders_count |-> 2,
   source_link |-> Str("https://solodit.cyfrin.io/issues/101"),
   issues_issue_finders |-> Finders(<<"alice", "bob">>),
   issues_issuetagscore |-> Tags(<<"Reentrancy", "Oracle">>)]

\* every nullable field null, empty lists, a body of exactly the excerpt length
FindingBare ==
  [id |-> "102", slug |-> "bare", title |-> "Unchecked return value",
   content |-> Content(TruncateAt), summary |-> Null,
   impact |-> "LOW", quality_score |-> 0, general_score |-> 0,
   report_date |-> Null, firm_name |-> Null, protocol_name |-> Null,
   finders_count |-> 0, source_link |-> Null,
   issues_issue_finders |-> Finders(<<>>),
   issues_issuetagscore |-> Tags(<<>>)]

\* no summary, a short body that ends in a line break
FindingShort ==
  [id |-> "103", slug |-> "short", title |-> "Missing zero check",
   content |-> "Short body.\n", summary |-> Null,
   impact |-> "GAS", quality_score |-> 2, general_score |-> 5,
   report_date |-> Str("2023-07-01"), firm_name |-> Null,
   protocol_name |-> Str("Pool"), finders_count |-> 1, source_link |-> Null,
   issues_issue_finders |-> Finders(<<"carol">>),
   issues_issuetagscore |-> Tags(<<"Validation">>)]

\* an empty summary, a body longer than the excerpt
FindingEmptySummary ==
  [FindingFull EXCEPT !.id = "104", !.slug = "empty-summary", !.summary = Str(""),
                      !.content = Content(TruncateAt + 2),
                      !.impact = "MEDIUM"]

\* responses that do not keep to the declared SoloditFinding type: a list
\* field that is null, a list field that is absent
FindingNullFinders ==
  [FindingShort EXCEPT !.id = "105", !.issues_issue_finders = Null]
FindingAbsentTags ==
  [FindingFull EXCEPT !.id = "106", !.issues_issuetagscore = Undefined]

FindingPool ==
  {FindingFull, FindingBare, FindingShort, FindingEmptySummary,
   FindingNullFinders, FindingAbsentTags}

\* the list fields are arrays, as interface SoloditFinding declares them
WellTyped(f) ==
  f.issues_issue_finders.t = "array" /\ f.issues_issuetagscore.t = "array"

SeqsUpTo(S, n) == UNION {[1..k -> S] : k \in 0..n}

\* elapsed is given in milliseconds
MetadataPool ==
  {[totalResults |-> 42, currentPage |-> 1, pageSize |-> 5, totalPages |-> 9,
    elapsed |-> 123],
   [totalResults |-> 0, currentPage |-> 2, pageSize |-> 20, totalPages |-> 0,
    elapsed |-> 1005]}

SearchResponses ==
  {[findings |-> fs, metadata |-> m,
    rateLimit |-> [limit |-> 20, remaining |-> 19, reset |-> 1700000000]] :
     fs \in SeqsUpTo(FindingPool, MaxFindings), m \in MetadataPool}

\* what response.json() finds in the body: no JSON, the JSON null, or an object
InvalidJson == [json |-> "invalid"]
JsonNull == [json |-> "null"]
JsonObject(o) == [json |-> "object", value |-> o]

ErrorBodies ==
  {InvalidJson, JsonNull,
   JsonObject([message |-> Str("rate limited")]),
   JsonObject([message |-> Str("")]),
   JsonObject([error |-> Str("quota")])}

ErrorStatuses ==
  {[status |-> 429, statusText |-> "Too Many Requests"],
   [status |-> 429, statusText |-> ""],
   [status |-> 500, statusText |-> "Internal Server Error"]}

\* how the awaited fetch can settle: it rejects, or it resolves to a response
Outcomes ==
  {[kind |-> "rejected"]}
  \cup {[kind |-> "response", ok |-> FALSE, status |-> s.status,
         statusText |-> s.statusText, body |-> b] :
          s \in ErrorStatuses, b \in ErrorBodies}
  \cup {[kind |-> "response", ok |-> TRUE, status |-> 200, statusText |-> "OK",
         body |-> b] :
          b \in {InvalidJson} \cup {JsonObject(r) : r \in SearchResponses}}

(***************************************************************************)
(* searchSoloditFindings.                                                  *)
(***************************************************************************)
Throw(name, message) == [threw |-> TRUE, error |-> [name |-> name, message |-> message]]
Return(value) == [threw |-> FALSE, value |-> value]

\* no check of the key before the fetch
KeyMissing_Never(key) == FALSE

\* !SOLODIT_API_KEY
KeyMissing(key) == ~Truthy(Str(key))

KeyError ==
  Throw("Error",
        "SOLODIT_API_KEY environment variable is not set. Please set it to use the Solodit API.")

\* obj.name, undefined when the object has no such property
Get(obj, name) == IF name \in DOMAIN obj THEN obj[name] ELSE Undefined

\* the body's message ignored
ErrorDetail_StatusTextOnly(errorData, statusText) == statusText

\* errorData.message || response.statusText
ErrorDetail(errorData, statusText) == Or(Get(errorData, "message"), Str(statusText)).v

\* the status code left out of the error
ApiErrorMessage_NoStatus(status, detail) == "Solodit API error: " \o detail

ApiErrorMessage(status, detail) ==
  "Solodit API error (" \o NumText(status) \o "): " \o detail

\* the rest of searchSoloditFindings once the awaited fetch has settled to o
AfterFetch(o) ==
  IF o.kind = "rejected" THEN Throw("TypeError", "fetch failed")
  ELSE IF ~o.ok
  THEN IF o.body.json = "null"
       THEN Throw("TypeError", "Cannot read properties of null (reading 'message')")
       ELSE LET errorData == IF o.body.json = "invalid"
                             THEN [k \in {} |-> Undefined]
                             ELSE o.body.value
            IN Throw("Error",
                     ApiErrorMessage(o.status, ErrorDetail(errorData, o.statusText)))
  ELSE IF o.body.json = "invalid"
       THEN Throw("SyntaxError", "Unexpected token in JSON")
       ELSE Return(o.body.value)

(***************************************************************************)
(* The renderings.                                                         *)
(***************************************************************************)
\* no placeholder for a missing value
OrNA_Empty(x) == Or(x, Str("")).v

\* value || "N/A" for a nullable string field
OrNA(x) == Or(x, Str("N/A")).v

\* list.map((e) => e[outer][inner]).join(", ") || "N/A"
Handles(list) == [i \in DOMAIN list |-> list[i].wardens_warden.handle]
Titles(list) == [i \in DOMAIN list |-> list[i].tags_tag.title]
JoinedOrNA(names) == OrNA(Str(Join(names, ", ")))

\* .map on a value that is no array throws a TypeError
MapThrows(f) == ~WellTyped(f)

\* finding.summary || finding.content.substring(0, 500) + "..."
Excerpt(f) ==
  Or(f.summary, Str(Substring0(f.content, TruncateAt) \o "...")).v

FieldLines(f) ==
  "**Protocol:** " \o OrNA(f.protocol_name) \o "\n"
  \o "**Audit Firm:** " \o OrNA(f.firm_name) \o "\n"
  \o "**Quality Score:** " \o NumText(f.quality_score) \o "/5\n"
  \o "**Rarity Score:** " \o NumText(f.general_score) \o "/5\n"
  \o "**Report Date:** " \o OrNA(f.report_date) \o "\n"
  \o "**Finders:** " \o JoinedOrNA(Handles(f.issues_issue_finders.v))
  \o " (" \o NumText(f.finders_count) \o " total)\n"
  \o "**Tags:** " \o JoinedOrNA(Titles(f.issues_issuetagscore.v)) \o "\n"
  \o "**Source:** " \o OrNA(f.source_link) \o "\n"

\* formatFinding, for a finding whose list fields are arrays
formatFinding(f) ==
  Trim("\n## [" \o f.impact \o "] " \o f.title \o "\n\n"
       \o "**ID:** " \o f.id \o "\n"
       \o "**Slug:** " \o f.slug \o "\n"
       \o FieldLines(f)
       \o "\n" \o Excerpt(f) \o "\n\n---\n")

\* the detail rendering with the content body cut like the list excerpt
formattedFinding_Truncated(f) ==
  Trim("\n# " \o f.title \o "\n\n"
       \o "**ID:** " \o f.id \o "\n"
       \o "**Slug:** " \o f.slug \o "\n"
       \o "**Impact:** " \o f.impact \o "\n"
       \o FieldLines(f)
       \o "\n---\n\n## Content\n\n" \o Substring0(f.content, TruncateAt) \o "\n")

\* the detail rendering of get_finding_by_id
formattedFinding(f) ==
  Trim("\n# " \o f.title \o "\n\n"
       \o "**ID:** " \o f.id \o "\n"
       \o "**Slug:** " \o f.slug \o "\n"
       \o "**Impact:** " \o f.impact \o "\n"
       \o FieldLines(f)
       \o "\n---\n\n## Content\n\n" \o f.content \o "\n")

NotFoundText(a) == "No finding found with ID or slug: " \o a.keywords.v

\* the blocks joined in reverse order
formattedFindings_Reversed(findings) ==
  Join([i \in DOMAIN findings |-> formatFinding(findings[Len(findings) + 1 - i])], "\n\n")

\* response.findings.map((f) => formatFinding(f)).join("\n\n")
formattedFindings(findings) ==
  Join([i \in DOMAIN findings |-> formatFinding(findings[i])], "\n\n")

\* the summary text of search_findings
summary(response) ==
  Trim("\n# Solodit Search Results\n\n"
       \o "**Total Results:** " \o NumText(response.metadata.totalResults) \o "\n"
       \o "**Page:** " \o NumText(response.metadata.currentPage)
       \o " of " \o NumText(response.metadata.totalPages) \o "\n"
       \o "**Results on this page:** " \o NumText(Len(response.findings)) \o "\n"
       \o "**Query Time:** " \o ToFixed3(response.metadata.elapsed) \o "s\n"
       \o "**Rate Limit:** " \o NumText(response.rateLimit.remaining)
       \o "/" \o NumText(response.rateLimit.limit) \o " remaining\n"
       \o "\n---\n\n"
       \o formattedFindings(response.findings) \o "\n")

(***************************************************************************)
(* What an invocation ends with.                                           *)
(***************************************************************************)
NoResult == [kind |-> "none"]
Text(t) == [kind |-> "text", text |-> t]
Failure(e) == [kind |-> "error", name |-> e.name, message |-> e.message]
MapTypeError ==
  [name |-> "TypeError", message |-> "Cannot read properties of undefined (reading 'map')"]

\* search_findings after `await searchSoloditFindings(searchRequest)`
SearchResult(q) ==
  IF q.threw THEN Failure(q.error)
  ELSE IF \E i \in DOMAIN q.value.findings : MapThrows(q.value.findings[i])
       THEN Failure(MapTypeError)
       ELSE Text(summary(q.value))

\* get_finding_by_id after `await searchSoloditFindings(searchRequest)`; the
\* elements of findings are objects, so `!finding` is false
GetResult(a, q) ==
  IF q.threw THEN Failure(q.error)
  ELSE IF Len(q.value.findings) = 0 THEN Text(NotFoundText(a))
  ELSE LET finding == q.value.findings[1]
       IN IF MapThrows(finding) THEN Failure(MapTypeError)
          ELSE Text(formattedFinding(finding))

(***************************************************************************)
(* The state machine: one tool invocation at a time.                       *)
(*   env              process.env.SOLODIT_API_KEY                          *)
(*   SOLODIT_API_KEY  the module constant read from it at start-up         *)
(*   pc               "idle", "awaiting" (the fetch is in flight), "done"  *)
(*   tool, args       the invocation being served                          *)
(*   sent             the request bodies fetch was called with, in order,  *)
(*                    during this invocation                               *)
(*   outcome          what the fetch settled to                            *)
(*   result           what the invocation ended with                       *)
(***************************************************************************)
NoArgs == [k \in {} |-> Undefined]
NoOutcome == [kind |-> "none"]

EnvValues == {Undefined, Str(""), Str("sk-test")}

Init ==
  /\ env \in EnvValues
  /\ SOLODIT_API_KEY = Or(env, Str("")).v
  /\ pc = "idle"
  /\ tool = "none"
  /\ args = NoArgs
  /\ sent = <<>>
  /\ outcome = NoOutcome
  /\ result = NoResult

\* the request sent a second time
IssueFetch_Twice(log, request) == Append(Append(log, request), request)

\* fetch(url, { body: JSON.stringify(request) })
IssueFetch(log, request) == Append(log, request)

\* searchSoloditFindings up to its first await: the key check, then the fetch
StartQuery(request) ==
  IF KeyMissing(SOLODIT_API_KEY)
  THEN /\ pc' = "done"
       /\ result' = Failure(KeyError.error)
       /\ sent' = sent
  ELSE /\ pc' = "awaiting"
       /\ result' = result
       /\ sent' = IssueFetch(sent, request)

\* the search_findings handler, up to the await
SearchFindings ==
  /\ pc = "idle"
  /\ \E a \in SearchArgs :
       /\ tool' = "search_findings"
       /\ args' = a
       /\ StartQuery(SearchRequest(a))
  /\ UNCHANGED <<env, SOLODIT_API_KEY, outcome>>

\* the get_finding_by_id handler, up to the await
GetFindingById ==
  /\ pc = "idle"
  /\ \E a \in GetArgs :
       /\ tool' = "get_finding_by_id"
       /\ args' = a
       /\ StartQuery(GetRequest(a))
  /\ UNCHANGED <<env, SOLODIT_API_KEY, outcome>>

\* the fetch settles and the handler runs to its end
FetchSettles ==
  /\ pc = "awaiting"
  /\ \E o \in Outcomes :
       /\ outcome' = o
       /\ result' = IF tool = "search_findings"
                    THEN SearchResult(AfterFetch(o))
                    ELSE GetResult(args, AfterFetch(o))
  /\ pc' = "done"
  /\ UNCHANGED <<env, SOLODIT_API_KEY, tool, args, sent>>

\* the invocation's result has gone back to the caller; the server is ready
\* for the next one
NextInvocation ==
  /\ pc = "done"
  /\ pc' = "idle"
  /\ tool' = "none"
  /\ args' = NoArgs
  /\ sent' = <<>>
  /\ outcome' = NoOutcome
  /\ result' = NoResult
  /\ UNCHANGED <<env, SOLODIT_API_KEY>>

Next == SearchFindings \/ GetFindingById \/ FetchSettles \/ NextInvocation

Spec == Init /\ [][Next]_vars

(***************************************************************************)
(* Helpers of the properties.                                              *)
(***************************************************************************)
StartsWith(s, p) == Len(s) >= Len(p) /\ SubSeq(s, 1, Len(p)) = p
EndsWith(s, p) == Len(s) >= Len(p) /\ SubSeq(s, Len(s) - Len(p) + 1, Len(s)) = p
Contains(s, p) ==
  \E i \in 1..(Len(s) - Len(p) + 1) : SubSeq(s, i, i + Len(p) - 1) = p
\* the text has this line
HasLine(s, line) == Contains("\n" \o s \o "\n", "\n" \o line \o "\n")

IsStr(x, s) == x.t = "string" /\ x.v = s

Searching == tool = "search_findings"
Getting == tool = "get_finding_by_id"
SuppliedFilters == Supplied(args) \cap FilterParams

\* the fetch resolved to a successful response whose body is a SearchResponse
GotResponse ==
  pc = "done" /\ outcome.kind = "response" /\ outcome.ok
  /\ outcome.body.json = "object"
Findings == outcome.body.value.findings
Metadata == outcome.body.value.metadata
\* the fetch resolved to a response with a non-success status
GotErrorStatus == pc = "done" /\ outcome.kind = "response" /\ ~outcome.ok

ApiErrorText(status, message) ==
  "Solodit API error (" \o ToString(status) \o "): " \o message

(***************************************************************************)
(* C1: a search_findings call that supplies no filter parameter, whatever  *)
(* page and pageSize are, sends a request with no `filters` key.           *)
(***************************************************************************)
\* C1: no filter parameter supplied, no `filters` key in what is sent
C1_NoFiltersKey ==
  (Searching /\ SuppliedFilters = {}) =>
     \A i \in DOMAIN sent : "filters" \notin DOMAIN sent[i]

C1_Witness ==
  /\ Searching /\ Supplied(args) = PageParams
  /\ Len(sent) = 1 /\ DOMAIN sent[1] = {"page", "pageSize"}

(***************************************************************************)
(* C2: a search_findings call that supplies exactly one filter parameter   *)
(* sends a `filters` object with exactly one key, that parameter's         *)
(* (`reported` for reportedDays), for every admitted value.                *)
(***************************************************************************)
TheParam == CHOOSE p \in SuppliedFilters : TRUE
TheKey == IF TheParam = "reportedDays" THEN "reported" ELSE TheParam
OneKeySent ==
  /\ "filters" \in DOMAIN sent[1]
  /\ DOMAIN sent[1].filters = {TheKey}

\* C2 as stated
C2_OneKeyForEveryValue ==
  (Searching /\ Cardinality(SuppliedFilters) = 1 /\ Len(sent) = 1) => OneKeySent

\* C2, amended: for every admitted value but the empty string; a lone empty
\* string leaves the request without a `filters` key
C2_OneKeyUnlessEmptyString ==
  (Searching /\ Cardinality(SuppliedFilters) = 1 /\ Len(sent) = 1) =>
     IF IsStr(args[TheParam], "")
     THEN "filters" \notin DOMAIN sent[1]
     ELSE OneKeySent

C2_Witness ==
  /\ Searching /\ SuppliedFilters = {"qualityScore"}
  /\ args["qualityScore"] = Num(0)
  /\ Len(sent) = 1 /\ "filters" \in DOMAIN sent[1]
  /\ DOMAIN sent[1].filters = {"qualityScore"}

(***************************************************************************)
(* C3: with the API key absent or empty, every invocation of either tool   *)
(* ends in failure and no fetch is made.                                   *)
(***************************************************************************)
\* C3: without a key nothing is sent and the invocation has failed
C3_NoKeyNoFetch ==
  (env = Undefined \/ IsStr(env, "")) =>
     /\ sent = <<>>
     /\ pc # "awaiting"
     /\ tool # "none" => (pc = "done" /\ result.kind = "error")

C3_Witness ==
  /\ IsStr(env, "") /\ Getting
  /\ pc = "done" /\ result.kind = "error" /\ sent = <<>>

(***************************************************************************)
(* C4: a non-success status with a JSON body that has a `message` makes    *)
(* the invocation fail with an error carrying that status and that         *)
(* message; no text is returned.                                           *)
(***************************************************************************)
BodyHasMessage ==
  outcome.body.json = "object" /\ "message" \in DOMAIN outcome.body.value
BodyMessage == outcome.body.value.message.v

\* C4 as stated
C4_ErrorCarriesMessage ==
  (GotErrorStatus /\ BodyHasMessage) =>
     /\ result.kind = "error"
     /\ result.message = ApiErrorText(outcome.status, BodyMessage)

\* C4, amended: a non-empty message is carried; in place of an empty one the
\* error carries the response's status text
C4_ErrorCarriesNonEmptyMessage ==
  (GotErrorStatus /\ BodyHasMessage) =>
     /\ result.kind = "error"
     /\ result.message =
          ApiErrorText(outcome.status,
                       IF BodyMessage # "" THEN BodyMessage ELSE outcome.statusText)

C4_Witness ==
  /\ GotErrorStatus /\ BodyHasMessage
  /\ outcome.status = 429 /\ BodyMessage = "rate limited"
  /\ result.kind = "error"
  /\ result.message = "Solodit API error (429): rate limited"

(***************************************************************************)
(* C5: a non-success status with a body that is no JSON makes the          *)
(* invocation fail with an error that carries the status and an empty      *)
(* message part, nothing put in its place.                                 *)
(***************************************************************************)
\* C5 as stated
C5_EmptyMessage ==
  (GotErrorStatus /\ outcome.body.json = "invalid") =>
     /\ result.kind = "error" /\ result.name = "Error"
     /\ result.message = ApiErrorText(outcome.status, "")

\* C5, amended: the message part is the response's status text
C5_StatusTextMessage ==
  (GotErrorStatus /\ outcome.body.json = "invalid") =>
     /\ result.kind = "error" /\ result.name = "Error"
     /\ result.message = ApiErrorText(outcome.status, outcome.statusText)

C5_Witness ==
  /\ GotErrorStatus /\ outcome.body.json = "invalid"
  /\ outcome.status = 500
  /\ result.message = "Solodit API error (500): Internal Server Error"

(***************************************************************************)
(* C6: in the list rendering, a finding with a null summary and a content  *)
(* body of exactly 500 characters has those 500 characters and the         *)
(* truncation marker as its excerpt; with a shorter content body the       *)
(* excerpt is the content in full, without the marker.                     *)
(***************************************************************************)
AllWellTyped == \A i \in DOMAIN Findings : WellTyped(Findings[i])
LastFinding == Findings[Len(Findings)]

\* C6 as stated, read off the last block of the text
C6_MarkerOnlyAtLimit ==
  (GotResponse /\ Searching /\ Len(Findings) > 0 /\ AllWellTyped
   /\ LastFinding.summary.t = "null" /\ Len(LastFinding.content) <= TruncateAt) =>
     /\ result.kind = "text"
     /\ EndsWith(result.text,
                 "\n\n"
                 \o (IF Len(LastFinding.content) = TruncateAt
                     THEN LastFinding.content \o "..."
                     ELSE LastFinding.content)
                 \o "\n\n---")

(***************************************************************************)
(* C7: get_finding_by_id sends exactly page 1, pageSize 1 and              *)
(* filters {keywords}; with no finding in the response the output is the   *)
(* not-found message with the caller's string, otherwise the detail        *)
(* rendering of the first finding with its whole content body.             *)
(***************************************************************************)
C7_Request ==
  (Getting /\ Len(sent) > 0) =>
     sent = <<[page |-> 1, pageSize |-> 1, filters |-> [keywords |-> args.keywords]]>>

C7_Output(contentPart) ==
  (Getting /\ GotResponse) =>
     IF Len(Findings) = 0
     THEN result = [kind |-> "text",
                    text |-> "No finding found with ID or slug: " \o args.keywords.v]
     ELSE WellTyped(Findings[1]) =>
            /\ result.kind = "text"
            /\ StartsWith(result.text,
                          "# " \o Findings[1].title \o "\n\n**ID:** " \o Findings[1].id
                          \o "\n**Slug:** " \o Findings[1].slug
                          \o "\n**Impact:** " \o Findings[1].impact \o "\n**Protocol:** ")
            /\ EndsWith(result.text, contentPart)

\* C7 as stated: the content body is in the output as it came
C7_WholeContent ==
  /\ C7_Request
  /\ C7_Output("\n\n---\n\n## Content\n\n" \o Findings[1].content)

\* C7, amended: the content body less its trailing whitespace, which the
\* rendering trims
C7_ContentLessTrailingSpace ==
  /\ C7_Request
  /\ C7_Output(TrimEnd("\n\n---\n\n## Content\n\n" \o Findings[1].content))

C7_Witness ==
  /\ Getting /\ GotResponse /\ Len(Findings) > 0
  /\ Findings[1] = FindingFull
  /\ Len(Findings[1].content) > TruncateAt
  /\ result.kind = "text"
  /\ EndsWith(result.text, "## Content\n\n" \o Findings[1].content)

(***************************************************************************)
(* C8: an invocation calls fetch at most once, and exactly once when the   *)
(* key is configured; a rejected fetch or a non-success status ends it in  *)
(* failure with no second call; while the fetch has not settled the        *)
(* invocation stays pending, nothing else ends it.                         *)
(***************************************************************************)
C8_Calls ==
  /\ Len(sent) <= 1
  /\ pc = "awaiting" => Len(sent) = 1
  /\ pc = "done" => Len(sent) = (IF SOLODIT_API_KEY = "" THEN 0 ELSE 1)
  /\ (pc = "done" /\ (outcome.kind = "rejected" \/ GotErrorStatus)) =>
        result.kind = "error"

C8_Step ==
  /\ pc = "awaiting" =>
        /\ pc' = "done" /\ outcome' # NoOutcome /\ result' # NoResult
        /\ sent' = sent
  /\ pc = "done" => pc' = "idle"

\* C8: every step keeps to C8_Step and every state to C8_Calls
C8_OneCallNoRetryNoTimeout == [][C8_Step]_vars /\ []C8_Calls

C8_Witness ==
  /\ pc = "done" /\ outcome.kind = "rejected"
  /\ Len(sent) = 1 /\ result.kind = "error"

(***************************************************************************)
(* C9: in both renderings a finding whose finder list or tag list is       *)
(* empty, null or absent is formatted without failure, the line shown with *)
(* its label and "N/A"; a null protocol name, firm name, report date or    *)
(* source link shows as "N/A" too.                                         *)
(***************************************************************************)
\* the finding whose rendering is the whole of the output
OneRendered ==
  GotResponse /\ \/ Searching /\ Len(Findings) = 1
                 \/ Getting /\ Len(Findings) > 0
NoValues(list) == list.t # "array" \/ Len(list.v) = 0

PlaceholderLines(f, text) ==
  /\ NoValues(f.issues_issue_finders) =>
        HasLine(text, "**Finders:** N/A (" \o ToString(f.finders_count) \o " total)")
  /\ NoValues(f.issues_issuetagscore) => HasLine(text, "**Tags:** N/A")
  /\ f.protocol_name.t = "null" => HasLine(text, "**Protocol:** N/A")
  /\ f.firm_name.t = "null" => HasLine(text, "**Audit Firm:** N/A")
  /\ f.report_date.t = "null" => HasLine(text, "**Report Date:** N/A")
  /\ f.source_link.t = "null" => HasLine(text, "**Source:** N/A")

\* C9 as stated
C9_NeverFails ==
  OneRendered =>
     /\ result.kind = "text"
     /\ PlaceholderLines(Findings[1], result.text)

\* C9, amended: so for empty lists and null fields; a finder or tag list that is
\* null or absent makes the invocation fail with a TypeError
C9_FailsOnMissingList ==
  OneRendered =>
     IF WellTyped(Findings[1])
     THEN /\ result.kind = "text"
          /\ PlaceholderLines(Findings[1], result.text)
     ELSE result.kind = "error" /\ result.name = "TypeError"

C9_Witness ==
  /\ OneRendered /\ Getting /\ Findings[1] = FindingBare
  /\ result.kind = "text"
  /\ HasLine(result.text, "**Finders:** N/A (0 total)")
  /\ HasLine(result.text, "**Tags:** N/A")
  /\ HasLine(result.text, "**Source:** N/A")

(***************************************************************************)
(* C10: a successful search_findings response with N findings gives the    *)
(* summary header, with "Total Results" the response's totalResults and    *)
(* "Results on this page" N, followed by exactly the N finding blocks in   *)
(* the order of the response.                                              *)
(***************************************************************************)
Blocks == [i \in DOMAIN Findings |-> formatFinding(Findings[i])]
BlocksPart ==
  IF Len(Findings) = 0 THEN "\n\n---" ELSE "\n\n---\n\n" \o Join(Blocks, "\n\n")
HeaderPart == SubSeq(result.text, 1, Len(result.text) - Len(BlocksPart))

\* C10: the text is the header, with both counts, then the blocks in order
C10_HeaderThenBlocksInOrder ==
  (Searching /\ GotResponse /\ AllWellTyped) =>
     /\ result.kind = "text"
     /\ EndsWith(result.text, BlocksPart)
     /\ StartsWith(HeaderPart,
                   "# Solodit Search Results\n\n**Total Results:** "
                   \o ToString(Metadata.totalResults) \o "\n**Page:** ")
     /\ HasLine(HeaderPart,
                "**Results on this page:** " \o ToString(Len(Findings)))
     /\ ~Contains(HeaderPart, "\n## [")

C10_Witness ==
  /\ Searching /\ GotResponse
  /\ Findings = <<FindingShort, FindingFull>>
  /\ Metadata.totalResults = 42
  /\ result.kind = "text"
  /\ HasLine(HeaderPart, "**Total Results:** 42")
  /\ HasLine(HeaderPart, "**Results on this page:** 2")

====
